---- MODULE Spec2Model ----
(***************************************************************************)
(* Attribution pipeline: the journey builder (pipeline/cj_builder.py),     *)
(* the batch submission engine (pipeline/api_client.py), the staged run    *)
(* (pipeline/pipeline.py) and the journeys file (run_pipeline.py).         *)
(*                                                                         *)
(* Five specifications share the variables:                                *)
(*   SpecBuild  CustomerJourneyBuilder.build_journeys, one loop iteration  *)
(*              per step, over a bounded touchpoint store;                 *)
(*   Spec       IHCApiClient.process_journeys, one service call per step,  *)
(*              the service's response chosen nondeterministically;        *)
(*   SpecNorm   IHCApiClient.validate_ihc_results applied to bounded       *)
(*              response payloads;                                         *)
(*   SpecPipe   AttributionPipeline.run_pipeline: the builder, the gate,   *)
(*              process_journeys, the gate, the report;                    *)
(*   SpecCsv    save_to_csv followed by pd.read_csv on bounded frames.     *)
(* Timestamps are instants (naturals, ordered as the parsed datetimes      *)
(* are). Weights are exact rationals n/d, so a property that holds here    *)
(* holds of the float computation up to rounding.                          *)
(***************************************************************************)
EXTENDS Integers, Sequences, FiniteSets, TLC

VARIABLES
    \* ---- build_journeys
    conversions_df,        \* rows of the conversions query, in query order
    session_sources_df,    \* rows of the session_sources query, in store order
    all_journeys,          \* list of per-conversion journey frames
    customer_journeys_df,  \* the returned frame (rows)
    bidx,                  \* number of conversions the loop has processed
    bpc,                   \* "off" | "loop" | "done"
    \* ---- process_journeys
    journeys_df,               \* the journeys frame (rows)
    max_journeys_per_request,  \* config
    max_sessions_per_request,  \* config
    pc,                        \* position in process_journeys
    i,                         \* offset of the outer loop (range start)
    k,                         \* conversions of the chunk the inner loop has taken
    response,                  \* the service's response to the last call
    console,                   \* what send_journeys_to_api printed about it
    table,                     \* rows of attribution_customer_journey
    total_records,
    total_processed,
    calls,                     \* history: the journey_data of every service call
    skipped,                   \* history: conversions reported as skipped
    slept,                     \* history: time.sleep(1) ran since the last call
    error,                     \* exception that left process_journeys, or "none"
    \* ---- validate_ihc_results on its own
    ihc_results,               \* the payload handed to the validator
    validated,                 \* its outcome
    npc,                       \* "off" | "input" | "validated"
    \* ---- run_pipeline
    stage,                     \* position in run_pipeline
    entered,                   \* history: the stages the run has entered
    outcome,                   \* what the caller of the run observes
    \* ---- save_to_csv / pd.read_csv
    saved_df,                  \* the in-memory journeys frame
    csv_file,                  \* the text cells of the written file
    loaded_df,                 \* the frame pd.read_csv returns
    cpc                        \* "off" | "frame" | "saved" | "loaded"

bvars == <<conversions_df, session_sources_df, all_journeys,
           customer_journeys_df, bidx, bpc>>
svars == <<journeys_df, max_journeys_per_request, max_sessions_per_request,
           pc, i, k, response, console, table, total_records,
           total_processed, calls, skipped, slept, error>>
nvars == <<ihc_results, validated, npc>>
pvars == <<stage, entered, outcome>>
cvars == <<saved_df, csv_file, loaded_df, cpc>>
vars == <<bvars, svars, nvars, pvars, cvars>>

----------------------------------------------------------------------------
(* Bounds of the model *)

MaxConversions == 2
MaxStoreRows == 3

Users == {"U1", "U2"}
\* three instants: before, at and after a conversion
Times == 1..3

----------------------------------------------------------------------------
(* Generic helpers *)

SeqsUpTo(S, n) == UNION {[1..m -> S] : m \in 0..n}

Range(s) == {s[x] : x \in DOMAIN s}

RECURSIVE FilterSeq(_, _)
\* boolean-mask selection of a frame: keeps the rows in their order
FilterSeq(s, keep) ==
    IF s = <<>> THEN <<>>
    ELSE IF Head(s) \in keep THEN <<Head(s)>> \o FilterSeq(Tail(s), keep)
         ELSE FilterSeq(Tail(s), keep)

RECURSIVE Concat(_)
\* pd.concat of a list of frames
Concat(frames) ==
    IF frames = <<>> THEN <<>> ELSE Head(frames) \o Concat(Tail(frames))

----------------------------------------------------------------------------
(* build_journeys *)

ConversionRows == [conv_id : {0}, user_id : Users, timestamp : Times]
SessionRows == [session_id : {0}, user_id : Users, timestamp : Times]

\* primary keys: the row's position in its table
WithConvIds(s) == [n \in DOMAIN s |-> [s[n] EXCEPT !.conv_id = n]]
WithSessionIds(s) == [n \in DOMAIN s |-> [s[n] EXCEPT !.session_id = n]]

Qualifies_anyUser(sess, conv) ==
    sess.timestamp <= conv.timestamp

Qualifies_strict(sess, conv) ==
    /\ sess.user_id = conv.user_id
    /\ sess.timestamp < conv.timestamp

\* the two boolean masks: same user, at or before the conversion time
Qualifies(sess, conv) ==
    /\ sess.user_id = conv.user_id
    /\ sess.timestamp <= conv.timestamp

user_sessions(conv) ==
    FilterSeq(session_sources_df,
              {s \in Range(session_sources_df) : Qualifies(s, conv)})

JourneyRow(conv_id, sess) ==
    [conversion_id |-> conv_id, session_id |-> sess.session_id,
     timestamp |-> sess.timestamp]

journey_frame(conv) ==
    LET us == user_sessions(conv)
    IN  [n \in DOMAIN us |-> JourneyRow(conv.conv_id, us[n])]

BuildOff ==
    /\ conversions_df = <<>>
    /\ session_sources_df = <<>>
    /\ all_journeys = <<>>
    /\ customer_journeys_df = <<>>
    /\ bidx = 0
    /\ bpc = "off"

BuildStart ==
    /\ conversions_df \in
           {WithConvIds(s) : s \in SeqsUpTo(ConversionRows, MaxConversions)}
    /\ session_sources_df \in
           {WithSessionIds(s) : s \in SeqsUpTo(SessionRows, MaxStoreRows)}
    /\ all_journeys = <<>>
    /\ customer_journeys_df = <<>>
    /\ bidx = 0
    /\ bpc = "loop"

\* one iteration of the loop over conversions_df.iterrows()
BuildStep ==
    /\ bpc = "loop"
    /\ bidx < Len(conversions_df)
    /\ LET conv == conversions_df[bidx + 1]
           jd == journey_frame(conv)
       IN  all_journeys' = IF jd # <<>> THEN Append(all_journeys, jd)
                           ELSE all_journeys
    /\ bidx' = bidx + 1
    /\ UNCHANGED <<conversions_df, session_sources_df, customer_journeys_df, bpc>>
    /\ UNCHANGED <<svars, nvars, pvars, cvars>>

\* after the loop: concatenate, or return the empty frame
BuildFinish ==
    /\ bpc = "loop"
    /\ bidx = Len(conversions_df)
    /\ customer_journeys_df' = Concat(all_journeys)
    /\ bpc' = "done"
    /\ UNCHANGED <<conversions_df, session_sources_df, all_journeys, bidx>>
    /\ UNCHANGED <<svars, nvars, pvars, cvars>>

BuildNext == BuildStep \/ BuildFinish

----------------------------------------------------------------------------
(* Weights: exact rationals n/d with n >= 0, d > 0, in lowest terms *)

RECURSIVE GCD(_, _)
GCD(a, b) == IF b = 0 THEN a ELSE GCD(b, a % b)

Q(n, d) == IF n = 0 THEN [n |-> 0, d |-> 1]
           ELSE [n |-> n \div GCD(n, d), d |-> d \div GCD(n, d)]

QAdd(a, b) == Q(a.n * b.d + b.n * a.d, a.d * b.d)

\* a / b, for b # 0
QDiv(a, b) == Q(a.n * b.d, a.d * b.n)

\* 0.0001, as 1/ToleranceDen
ToleranceDen == 10000

FarFromOne_exact(q) == q.n # q.d

FarFromOne_noAbs(q) ==
    (q.n - q.d) * ToleranceDen > q.d

\* abs(q - 1.0) > 0.0001
FarFromOne(q) ==
    (IF q.n >= q.d THEN q.n - q.d ELSE q.d - q.n) * ToleranceDen > q.d

RECURSIVE IhcSum(_)
\* sum(session['ihc'] for session in sessions)
IhcSum(sessions) ==
    IF sessions = <<>> THEN Q(0, 1)
    ELSE QAdd(Head(sessions).ihc, IhcSum(Tail(sessions)))

----------------------------------------------------------------------------
(* The service's response and send_journeys_to_api *)

\* An entry of `value`: the three keys, `missing` naming a key the entry
\* lacks ("none": the entry is well formed).
ResultKeys == {"conversion_id", "session_id", "ihc"}

HasKey(result, key) == result.missing # key

ResultRow(conv, sess, w, m) ==
    [conversion_id |-> conv, session_id |-> sess, ihc |-> w, missing |-> m]

\* weights the service gives every session of a call in the Spec runs:
\* a zero, one that needs rescaling, one that is a whole credit
ServiceWeights == {Q(0, 1), Q(3, 10), Q(1, 1)}

\* `value` for a call: one entry per submitted row, each with weight w, the
\* last entry lacking key m
Payload(batch_rows, w, m) ==
    [n \in DOMAIN batch_rows |->
        ResultRow(batch_rows[n].conversion_id, batch_rows[n].session_id, w,
                  IF n = Len(batch_rows) THEN m ELSE "none")]

\* what requests.post can come back with
\* (`partial`: the body also carries a non-empty partialFailureErrors)
Responses(batch_rows) ==
    {[kind |-> x, value |-> <<>>, partial |-> FALSE] :
        x \in {"transport_error", "status_error", "not_json", "no_value"}}
    \cup {[kind |-> "value", value |-> <<>>, partial |-> FALSE]}
    \cup {[kind |-> "value", value |-> Payload(batch_rows, w, "none"),
           partial |-> p] : w \in ServiceWeights, p \in BOOLEAN}
    \cup {[kind |-> "value", value |-> Payload(batch_rows, Q(1, 1), m),
           partial |-> FALSE] : m \in ResultKeys}

NoResponse == [kind |-> "no_call", value |-> <<>>, partial |-> FALSE]

\* what send_journeys_to_api gives its caller: None, or a list of entries,
\* or an exception that leaves it
None == [none |-> TRUE, rows |-> <<>>, raised |-> "none", printed |-> "error"]
Some(rows) ==
    [none |-> FALSE, rows |-> rows, raised |-> "none", printed |-> "status"]
Raises(exc) ==
    [none |-> FALSE, rows |-> <<>>, raised |-> exc, printed |-> "nothing"]
\* the list, after the "Partial Failure Errors" line was printed
SomeWithErrors(rows) ==
    [Some(rows) EXCEPT !.printed = "partial_failure_errors"]

\* `if results:` : neither None nor an empty list
Truthy(results) == ~results.none /\ results.rows # <<>>

send_journeys_to_api_uncaught(resp) ==
    IF resp.kind = "transport_error" THEN Raises("ConnectionError")
    ELSE IF resp.kind = "not_json" THEN Raises("JSONDecodeError")
    ELSE IF resp.kind = "status_error" THEN None
    ELSE IF resp.kind = "no_value" THEN Some(<<>>)
    ELSE Some(resp.value)

send_journeys_to_api_partialIsFailure(resp) ==
    IF resp.kind \in {"transport_error", "status_error", "not_json"} THEN None
    ELSE IF resp.partial THEN None
    ELSE IF resp.kind = "no_value" THEN Some(<<>>)
    ELSE Some(resp.value)

\* the try block: an exception of requests.post or of response.json(), or
\* a status other than 200, gives None; else results.get('value', []),
\* partialFailureErrors being printed on the way
send_journeys_to_api(resp) ==
    IF resp.kind \in {"transport_error", "status_error", "not_json"} THEN None
    ELSE IF resp.kind = "no_value" THEN Some(<<>>)
    ELSE IF resp.partial THEN SomeWithErrors(resp.value)
    ELSE Some(resp.value)

----------------------------------------------------------------------------
(* validate_ihc_results *)

RECURSIVE UniqueAcc(_, _)
UniqueAcc(s, acc) ==
    IF s = <<>> THEN acc
    ELSE UniqueAcc(Tail(s), IF Head(s) \in Range(acc) THEN acc
                            ELSE Append(acc, Head(s)))

\* values in order of first appearance (Series.unique, dict insertion order)
Unique(s) == UniqueAcc(s, <<>>)

ConversionIds(rows) == [n \in DOMAIN rows |-> rows[n].conversion_id]

Returned(rows) == [raised |-> "none", rows |-> rows]
Raised(exc) == [raised |-> exc, rows |-> <<>>]

\* conversions[conv_id]
GroupOf(results, conv_id) ==
    FilterSeq(results, {r \in Range(results) : r.conversion_id = conv_id})

\* session['ihc'] = session['ihc'] / ihc_sum, for every session of the group
Rescale(sessions, ihc_sum) ==
    [n \in DOMAIN sessions |->
        [sessions[n] EXCEPT !.ihc = QDiv(@, ihc_sum)]]

\* the body of the loop over conversions.items()
NormalizeGroup(sessions) ==
    IF \E n \in DOMAIN sessions : ~HasKey(sessions[n], "ihc")
    THEN Raised("KeyError")
    ELSE LET ihc_sum == IhcSum(sessions)
         IN  IF FarFromOne(ihc_sum)
             THEN IF ihc_sum.n = 0 THEN Raised("ZeroDivisionError")
                  ELSE Returned(Rescale(sessions, ihc_sum))
             ELSE Returned(sessions)

RECURSIVE ValidateGroups(_, _)
\* the loop over conversions.items(), left at the first exception
ValidateGroups(results, conv_ids) ==
    IF conv_ids = <<>> THEN Returned(<<>>)
    ELSE LET g == NormalizeGroup(GroupOf(results, Head(conv_ids)))
         IN  IF g.raised # "none" THEN g
             ELSE LET rest == ValidateGroups(results, Tail(conv_ids))
                  IN  IF rest.raised # "none" THEN rest
                      ELSE Returned(g.rows \o rest.rows)

validate_ihc_results(results) ==
    IF results = <<>> THEN Returned(<<>>)
    ELSE IF \E n \in DOMAIN results : ~HasKey(results[n], "conversion_id")
         THEN Raised("KeyError")
         ELSE ValidateGroups(results, Unique(ConversionIds(results)))

----------------------------------------------------------------------------
(* write_ihc_to_db *)

\* A row of attribution_customer_journey. `run` is history: "previous" for
\* a row the table held when process_journeys began, "current" for a row
\* this run inserted.
TableRow(result, run) ==
    [conv_id |-> result.conversion_id, session_id |-> result.session_id,
     ihc |-> result.ihc, run |-> run]

\* returns the table and the number of records written, or raises
write_ihc_to_db(results, tbl) ==
    IF results = <<>> THEN [raised |-> "none", table |-> tbl, records |-> 0]
    ELSE IF \E n \in DOMAIN results :
                \E key \in ResultKeys : ~HasKey(results[n], key)
         THEN [raised |-> "KeyError", table |-> tbl, records |-> 0]
         ELSE [raised |-> "none",
               table |-> [n \in DOMAIN results |-> TableRow(results[n], "current")],
               records |-> Len(results)]

----------------------------------------------------------------------------
(* process_journeys *)

MaxJourneys == 3
MaxJourneyLen == 2
MaxJourneysLimit == 2
MaxSessionsLimit == 3

RECURSIVE SumSeq(_)
SumSeq(s) == IF s = <<>> THEN 0 ELSE Head(s) + SumSeq(Tail(s))

\* A journeys frame as build_journeys lays it out: the journeys one after
\* the other, journey c having sizes[c] rows.
JourneysOfSizes(sizes) ==
    Concat([c \in DOMAIN sizes |->
               [t \in 1..sizes[c] |->
                   [conversion_id |-> c,
                    session_id |-> SumSeq(SubSeq(sizes, 1, c - 1)) + t,
                    timestamp |-> t]]])

\* what an earlier run left in the table when this run begins
PreviousRows ==
    <<[conv_id |-> 0, session_id |-> 0, ihc |-> Q(1, 1), run |-> "previous"]>>

Min(a, b) == IF a <= b THEN a ELSE b

unique_conversions == Unique(ConversionIds(journeys_df))
total_conversions == Len(unique_conversions)

conversion_chunk_inclusiveEnd ==
    SubSeq(unique_conversions, i + 1,
           Min(i + max_journeys_per_request + 1, total_conversions))

\* unique_conversions[i:i+max_journeys_per_request]
conversion_chunk ==
    SubSeq(unique_conversions, i + 1,
           Min(i + max_journeys_per_request, total_conversions))

\* journeys_df[journeys_df['conversion_id'].isin(conversion_chunk)]
journey_chunk_df ==
    FilterSeq(journeys_df,
              {r \in Range(journeys_df) : r.conversion_id \in Range(conversion_chunk)})

\* journeys_df[journeys_df['conversion_id'] == conv_id]
single_conv_df(conv_id) ==
    FilterSeq(journeys_df, {r \in Range(journeys_df) : r.conversion_id = conv_id})

\* len(journey_chunk_df) > max_sessions_per_request
ChunkExceedsSessionLimit_countsJourneys ==
    Len(conversion_chunk) > max_sessions_per_request

ChunkExceedsSessionLimit ==
    Len(journey_chunk_df) > max_sessions_per_request

\* num_sessions > max_sessions_per_request
TooManySessions_atLimit(conv_id) ==
    Len(single_conv_df(conv_id)) >= max_sessions_per_request

TooManySessions(conv_id) ==
    Len(single_conv_df(conv_id)) > max_sessions_per_request

SubmitOff ==
    /\ journeys_df = <<>>
    /\ max_journeys_per_request = 1
    /\ max_sessions_per_request = 1
    /\ pc = "off"
    /\ i = 0
    /\ k = 0
    /\ response = NoResponse
    /\ console = "nothing"
    /\ table = <<>>
    /\ total_records = 0
    /\ total_processed = 0
    /\ calls = <<>>
    /\ skipped = {}
    /\ slept = TRUE
    /\ error = "none"

SubmitStart ==
    /\ journeys_df \in
           {JourneysOfSizes(sizes) :
               sizes \in SeqsUpTo(1..MaxJourneyLen, MaxJourneys)}
    /\ max_journeys_per_request \in 1..MaxJourneysLimit
    /\ max_sessions_per_request \in 1..MaxSessionsLimit
    /\ pc = "start"
    /\ i = 0
    /\ k = 0
    /\ response = NoResponse
    /\ console = "nothing"
    /\ table = PreviousRows
    /\ total_records = 0
    /\ total_processed = 0
    /\ calls = <<>>
    /\ skipped = {}
    /\ slept = TRUE
    /\ error = "none"

\* One service call and what the loop body does with its result:
\* send_journeys_to_api, then, if results, validate_ihc_results and
\* write_ihc_to_db; an exception of either leaves process_journeys.
SendAndWrite(batch_rows, num_conversions, nextpc) ==
    \E resp \in Responses(batch_rows) :
        LET results == send_journeys_to_api(resp)
            v == validate_ihc_results(results.rows)
            w == write_ihc_to_db(v.rows, table)
            exc == IF results.raised # "none" THEN results.raised
                   ELSE IF ~Truthy(results) THEN "none"
                   ELSE IF v.raised # "none" THEN v.raised
                   ELSE w.raised
            wrote == Truthy(results) /\ exc = "none"
        IN  /\ response' = resp
            /\ console' = results.printed
            /\ calls' = Append(calls, batch_rows)
            /\ slept' = FALSE
            /\ error' = exc
            /\ pc' = IF exc # "none" THEN "crashed" ELSE nextpc
            /\ table' = IF wrote THEN w.table ELSE table
            /\ total_records' = IF wrote THEN total_records + w.records
                                ELSE total_records
            /\ total_processed' = IF wrote THEN total_processed + num_conversions
                                  ELSE total_processed

\* if journeys_df.empty: return 0; else enter the loop
Begin ==
    /\ pc = "start"
    /\ pc' = IF journeys_df = <<>> THEN "done" ELSE "chunk"
    /\ UNCHANGED <<journeys_df, max_journeys_per_request, max_sessions_per_request,
                   i, k, response, console, table, total_records, total_processed,
                   calls, skipped, slept, error>>
    /\ UNCHANGED <<bvars, nvars, pvars, cvars>>

\* the chunk is over the session limit: process its conversions one by one
SplitChunk ==
    /\ pc = "chunk"
    /\ i < total_conversions
    /\ ChunkExceedsSessionLimit
    /\ pc' = "single"
    /\ k' = 0
    /\ UNCHANGED <<journeys_df, max_journeys_per_request, max_sessions_per_request,
                   i, response, console, table, total_records, total_processed,
                   calls, skipped, slept, error>>
    /\ UNCHANGED <<bvars, nvars, pvars, cvars>>

\* the chunk is within the session limit: one call for the whole chunk
SubmitChunk ==
    /\ pc = "chunk"
    /\ i < total_conversions
    /\ ~ChunkExceedsSessionLimit
    /\ SendAndWrite(journey_chunk_df, Len(conversion_chunk), "sleep_chunk")
    /\ UNCHANGED <<journeys_df, max_journeys_per_request, max_sessions_per_request,
                   i, k, skipped>>
    /\ UNCHANGED <<bvars, nvars, pvars, cvars>>

SleepChunk_onlyAfterResults ==
    /\ pc = "sleep_chunk"
    /\ slept' = Truthy(send_journeys_to_api(response))
    /\ i' = i + max_journeys_per_request
    /\ pc' = "chunk"
    /\ response' = NoResponse
    /\ console' = "nothing"
    /\ UNCHANGED <<journeys_df, max_journeys_per_request, max_sessions_per_request,
                   k, table, total_records, total_processed, calls, skipped, error>>
    /\ UNCHANGED <<bvars, nvars, pvars, cvars>>

\* time.sleep(1) after the chunk's call, then the next chunk
SleepChunk ==
    /\ pc = "sleep_chunk"
    /\ slept' = TRUE
    /\ i' = i + max_journeys_per_request
    /\ pc' = "chunk"
    /\ response' = NoResponse
    /\ console' = "nothing"
    /\ UNCHANGED <<journeys_df, max_journeys_per_request, max_sessions_per_request,
                   k, table, total_records, total_processed, calls, skipped, error>>
    /\ UNCHANGED <<bvars, nvars, pvars, cvars>>

\* a conversion with more sessions than a request may hold: skipped
SkipConversion ==
    /\ pc = "single"
    /\ k < Len(conversion_chunk)
    /\ TooManySessions(conversion_chunk[k + 1])
    /\ skipped' = skipped \cup {conversion_chunk[k + 1]}
    /\ k' = k + 1
    /\ UNCHANGED <<journeys_df, max_journeys_per_request, max_sessions_per_request,
                   pc, i, response, console, table, total_records, total_processed,
                   calls, slept, error>>
    /\ UNCHANGED <<bvars, nvars, pvars, cvars>>

\* one call for one conversion of the chunk
SubmitSingle ==
    /\ pc = "single"
    /\ k < Len(conversion_chunk)
    /\ ~TooManySessions(conversion_chunk[k + 1])
    /\ SendAndWrite(single_conv_df(conversion_chunk[k + 1]), 1, "sleep_single")
    /\ UNCHANGED <<journeys_df, max_journeys_per_request, max_sessions_per_request,
                   i, k, skipped>>
    /\ UNCHANGED <<bvars, nvars, pvars, cvars>>

\* time.sleep(1) after the conversion's call, then the next conversion
SleepSingle ==
    /\ pc = "sleep_single"
    /\ slept' = TRUE
    /\ k' = k + 1
    /\ pc' = "single"
    /\ response' = NoResponse
    /\ console' = "nothing"
    /\ UNCHANGED <<journeys_df, max_journeys_per_request, max_sessions_per_request,
                   i, table, total_records, total_processed, calls, skipped, error>>
    /\ UNCHANGED <<bvars, nvars, pvars, cvars>>

\* the inner loop is exhausted: the next chunk
EndSplit ==
    /\ pc = "single"
    /\ k = Len(conversion_chunk)
    /\ i' = i + max_journeys_per_request
    /\ k' = 0
    /\ pc' = "chunk"
    /\ UNCHANGED <<journeys_df, max_journeys_per_request, max_sessions_per_request,
                   response, console, table, total_records, total_processed,
                   calls, skipped, slept, error>>
    /\ UNCHANGED <<bvars, nvars, pvars, cvars>>

\* the outer loop is exhausted: verify_ihc_data (reads only), return total_records
Finish ==
    /\ pc = "chunk"
    /\ i >= total_conversions
    /\ pc' = "done"
    /\ UNCHANGED <<journeys_df, max_journeys_per_request, max_sessions_per_request,
                   i, k, response, console, table, total_records, total_processed,
                   calls, skipped, slept, error>>
    /\ UNCHANGED <<bvars, nvars, pvars, cvars>>

SubmitNext ==
    \/ Begin
    \/ SplitChunk
    \/ SubmitChunk
    \/ SleepChunk
    \/ SkipConversion
    \/ SubmitSingle
    \/ SleepSingle
    \/ EndSplit
    \/ Finish

----------------------------------------------------------------------------
(* validate_ihc_results on bounded payloads *)

MaxResults == 3

\* 1/2 + 5001/10000 is within the tolerance of 1, 5001/10000 twice is not
PayloadWeights ==
    {Q(0, 1), Q(3, 10), Q(1, 2), Q(5001, 10000), Q(1, 1)}

PayloadConversions == {1, 2}

NormOff ==
    /\ ihc_results = <<>>
    /\ validated = Returned(<<>>)
    /\ npc = "off"

NormStart ==
    /\ ihc_results \in
           {[n \in DOMAIN s |-> ResultRow(s[n].conv, n, s[n].w, "none")] :
               s \in SeqsUpTo([conv : PayloadConversions, w : PayloadWeights],
                              MaxResults)}
    /\ validated = Returned(<<>>)
    /\ npc = "input"

Validate ==
    /\ npc = "input"
    /\ validated' = validate_ihc_results(ihc_results)
    /\ npc' = "validated"
    /\ UNCHANGED ihc_results
    /\ UNCHANGED <<bvars, svars, pvars, cvars>>

NormNext == Validate

----------------------------------------------------------------------------
(* run_pipeline: the three stages and the two gates between them *)

MaxPipeConversions == 2
MaxPipeStoreRows == 2

\* a store in which a conversion can lack a qualifying touchpoint for
\* either reason: no session of its user, or only later sessions
PipeConversionRows == [conv_id : {0}, user_id : Users, timestamp : {2}]
PipeSessionRows == [session_id : {0}, user_id : {"U1"}, timestamp : {1, 3}]

Pending == [value |-> "pending", exit_status |-> -1]
\* run_pipeline returned (always None); main() then ends, exit status 0
ReturnedNone == [value |-> "None", exit_status |-> 0]
\* an exception left run_pipeline and main(): traceback, exit status 1
Uncaught(exc) == [value |-> exc, exit_status |-> 1]

PipeOff ==
    /\ stage = "off"
    /\ entered = {}
    /\ outcome = Pending

\* AttributionPipeline.__init__ read the config; run_pipeline is at step 1
PipeStart ==
    /\ conversions_df \in
           {WithConvIds(s) : s \in SeqsUpTo(PipeConversionRows, MaxPipeConversions)}
    /\ session_sources_df \in
           {WithSessionIds(s) : s \in SeqsUpTo(PipeSessionRows, MaxPipeStoreRows)}
    /\ all_journeys = <<>>
    /\ customer_journeys_df = <<>>
    /\ bidx = 0
    /\ bpc = "loop"
    /\ journeys_df = <<>>
    /\ max_journeys_per_request \in 1..MaxJourneysLimit
    /\ max_sessions_per_request \in 1..MaxSessionsLimit
    /\ pc = "off"
    /\ i = 0
    /\ k = 0
    /\ response = NoResponse
    /\ console = "nothing"
    /\ table = PreviousRows
    /\ total_records = 0
    /\ total_processed = 0
    /\ calls = <<>>
    /\ skipped = {}
    /\ slept = TRUE
    /\ error = "none"
    /\ stage = "build_journeys"
    /\ entered = {"build_journeys"}
    /\ outcome = Pending

JourneysGate_passesEmpty == FALSE

\* if journeys_df.empty
JourneysGate == customer_journeys_df = <<>>

\* step 1 returned: halt on an empty frame, else hand the frame to step 2
AfterBuildJourneys ==
    /\ stage = "build_journeys"
    /\ bpc = "done"
    /\ IF JourneysGate
       THEN /\ stage' = "returned"
            /\ outcome' = ReturnedNone
            /\ UNCHANGED <<entered, journeys_df, pc>>
       ELSE /\ stage' = "send_to_api"
            /\ entered' = entered \cup {"send_to_api"}
            /\ journeys_df' = customer_journeys_df
            /\ pc' = "start"
            /\ UNCHANGED outcome
    /\ UNCHANGED <<max_journeys_per_request, max_sessions_per_request,
                   i, k, response, console, table, total_records, total_processed,
                   calls, skipped, slept, error>>
    /\ UNCHANGED <<bvars, nvars, cvars>>

RecordsGate_passesZero == FALSE

\* if records == 0
RecordsGate == total_records = 0

\* step 2 returned total_records: halt on zero, else enter step 3
AfterSendToApi ==
    /\ stage = "send_to_api"
    /\ pc = "done"
    /\ IF RecordsGate
       THEN /\ stage' = "returned"
            /\ outcome' = ReturnedNone
            /\ UNCHANGED entered
       ELSE /\ stage' = "generate_report"
            /\ entered' = entered \cup {"generate_report"}
            /\ UNCHANGED outcome
    /\ UNCHANGED <<bvars, svars, nvars, cvars>>

\* an exception of process_journeys is caught nowhere on its way out
PropagateError ==
    /\ stage = "send_to_api"
    /\ pc = "crashed"
    /\ stage' = "raised"
    /\ outcome' = Uncaught(error)
    /\ UNCHANGED entered
    /\ UNCHANGED <<bvars, svars, nvars, cvars>>

\* step 3, then "Pipeline Completed Successfully" and the implicit return
GenerateReport ==
    /\ stage = "generate_report"
    /\ stage' = "returned"
    /\ outcome' = ReturnedNone
    /\ UNCHANGED entered
    /\ UNCHANGED <<bvars, svars, nvars, cvars>>

PipeNext ==
    \/ BuildNext
    \/ AfterBuildJourneys
    \/ SubmitNext
    \/ AfterSendToApi
    \/ PropagateError
    \/ GenerateReport

----------------------------------------------------------------------------
(* save_to_csv and pd.read_csv: the journeys file *)

MaxCsvRows == 2

\* The text of a file cell, by what the reader's parser makes of it: an
\* ordinary word, a run of digits (with its leading zeros), one of the
\* reader's default NA spellings, or nothing.
Word(chars) == [form |-> "word", chars |-> chars, zeros |-> 0, num |-> 0]
Digits(zeros, num) == [form |-> "digits", chars |-> "", zeros |-> zeros, num |-> num]
NaSpelling(chars) == [form |-> "na", chars |-> chars, zeros |-> 0, num |-> 0]
Empty == [form |-> "empty", chars |-> "", zeros |-> 0, num |-> 0]

\* The value of a frame cell
StrCell(text) == [type |-> "str", text |-> text, num |-> 0]
IntCell(num) == [type |-> "int", text |-> Empty, num |-> num]
FloatCell(num) == [type |-> "float", text |-> Empty, num |-> num]
NaNCell == [type |-> "nan", text |-> Empty, num |-> 0]
NoneCell == [type |-> "None", text |-> Empty, num |-> 0]

CsvColumns == {"conversion_id", "channel_label", "conversion"}

\* identifiers and labels are text of the store; a label may be NULL
IdCells == {StrCell(Word("c1")), StrCell(Digits(0, 7)), StrCell(Digits(1, 7))}
LabelCells == {StrCell(Word("Direct")), StrCell(NaSpelling("N/A")), NoneCell}

\* DataFrame.to_csv: a string as it is, a number in decimal, a missing
\* value as the empty na_rep
to_csv_cell(cell) ==
    IF cell.type = "str" THEN cell.text
    ELSE IF cell.type \in {"int", "float"} THEN Digits(0, cell.num)
    ELSE Empty

\* journeys_df.to_csv(output_path, index=False)
to_csv(frame) ==
    [n \in DOMAIN frame |-> [c \in CsvColumns |-> to_csv_cell(frame[n][c])]]

IsNa(text) == text.form \in {"na", "empty"}

\* the dtype pd.read_csv infers for a column from its cells
InferredType(file, c) ==
    LET present == {n \in DOMAIN file : ~IsNa(file[n][c])}
    IN  IF \E n \in present : file[n][c].form # "digits" THEN "object"
        ELSE IF present = DOMAIN file THEN "int64"
        ELSE "float64"

read_csv_cell(text, dtype) ==
    IF IsNa(text) THEN NaNCell
    ELSE IF dtype = "int64" THEN IntCell(text.num)
    ELSE IF dtype = "float64" THEN FloatCell(text.num)
    ELSE StrCell(text)

\* pd.read_csv(args.journeys_path), all defaults
read_csv(file) ==
    [n \in DOMAIN file |->
        [c \in CsvColumns |-> read_csv_cell(file[n][c], InferredType(file, c))]]

CsvOff ==
    /\ saved_df = <<>>
    /\ csv_file = <<>>
    /\ loaded_df = <<>>
    /\ cpc = "off"

\* a non-empty journeys frame (build_and_save saves no other)
CsvStart ==
    /\ saved_df \in
           {f \in SeqsUpTo([conversion_id : IdCells, channel_label : LabelCells,
                            conversion : {IntCell(0)}], MaxCsvRows) : f # <<>>}
    /\ csv_file = <<>>
    /\ loaded_df = <<>>
    /\ cpc = "frame"

\* --step build-journeys: save_to_csv
SaveToCsv ==
    /\ cpc = "frame"
    /\ csv_file' = to_csv(saved_df)
    /\ cpc' = "saved"
    /\ UNCHANGED <<saved_df, loaded_df>>
    /\ UNCHANGED <<bvars, svars, nvars, pvars>>

\* --step send-to-api: the frame handed to run_step_send_to_api
LoadCsv ==
    /\ cpc = "saved"
    /\ loaded_df' = read_csv(csv_file)
    /\ cpc' = "loaded"
    /\ UNCHANGED <<saved_df, csv_file>>
    /\ UNCHANGED <<bvars, svars, nvars, pvars>>

CsvNext == SaveToCsv \/ LoadCsv

----------------------------------------------------------------------------
(* Specifications *)

BuildInit == BuildStart /\ SubmitOff /\ NormOff /\ PipeOff /\ CsvOff
Init == BuildOff /\ SubmitStart /\ NormOff /\ PipeOff /\ CsvOff
NormInit == BuildOff /\ SubmitOff /\ NormStart /\ PipeOff /\ CsvOff
PipeInit == PipeStart /\ NormOff /\ CsvOff
CsvInit == BuildOff /\ SubmitOff /\ NormOff /\ PipeOff /\ CsvStart

Next == SubmitNext

SpecBuild == BuildInit /\ [][BuildNext]_vars
Spec == Init /\ [][Next]_vars
SpecNorm == NormInit /\ [][NormNext]_vars
SpecPipe == PipeInit /\ [][PipeNext]_vars
SpecCsv == CsvInit /\ [][CsvNext]_vars

----------------------------------------------------------------------------
(* Claims about build_journeys (SpecBuild) *)

\* rows of the journeys built so far that carry conversion conv_id
JourneyRowsOf(conv_id) ==
    LET rows == Concat(all_journeys)
    IN  FilterSeq(rows, {r \in Range(rows) : r.conversion_id = conv_id})

SessionIdsOf(rows) == {rows[n].session_id : n \in DOMAIN rows}

\* the store's touchpoints of the conversion's identity at or before it
QualifyingSessionIds(conv) ==
    {s.session_id : s \in {x \in Range(session_sources_df) :
                              /\ x.user_id = conv.user_id
                              /\ x.timestamp <= conv.timestamp}}

\* C1: for every conversion build_journeys has processed, the touchpoints of
\* its journey are exactly the store's touchpoints of the same identity with
\* occurred_at <= the conversion's, each once; the returned frame holds the
\* same rows.
C1_JourneyIsExactlyQualifying ==
    /\ \A n \in 1..bidx :
          /\ SessionIdsOf(JourneyRowsOf(n)) = QualifyingSessionIds(conversions_df[n])
          /\ Len(JourneyRowsOf(n)) = Cardinality(QualifyingSessionIds(conversions_df[n]))
    /\ bpc = "done" => customer_journeys_df = Concat(all_journeys)

\* a finished build in which one conversion's journey takes a touchpoint at
\* the conversion instant that another conversion's journey takes too, and
\* leaves out a later touchpoint and one of another identity
C1_Witness ==
    /\ bpc = "done"
    /\ \E n, m \in DOMAIN conversions_df :
       \E a, b, c \in DOMAIN session_sources_df :
          LET conv == conversions_df[n]
              ids == SessionIdsOf(JourneyRowsOf(n))
          IN  /\ n # m
              /\ session_sources_df[a].user_id = conv.user_id
              /\ session_sources_df[a].timestamp = conv.timestamp
              /\ a \in ids
              /\ a \in SessionIdsOf(JourneyRowsOf(m))
              /\ session_sources_df[b].user_id = conv.user_id
              /\ session_sources_df[b].timestamp > conv.timestamp
              /\ b \notin ids
              /\ session_sources_df[c].user_id # conv.user_id
              /\ c \notin ids

\* C2: every journey lists its touchpoints in ascending occurred_at order,
\* whatever the order of the store's rows.
C2_JourneysAscending ==
    \A j \in DOMAIN all_journeys :
        \A a, b \in DOMAIN all_journeys[j] :
            a < b => all_journeys[j][a].timestamp <= all_journeys[j][b].timestamp

----------------------------------------------------------------------------
(* Claims about process_journeys (Spec) *)

\* the conversions of the b-th service call
CallConversions(b) == Range(ConversionIds(calls[b]))

Submitted == UNION {CallConversions(b) : b \in DOMAIN calls}

\* position of a conversion in unique_conversions
PositionOf(conv_id) ==
    CHOOSE n \in DOMAIN unique_conversions : unique_conversions[n] = conv_id

RowsOfConversion(conv_id) ==
    {n \in DOMAIN journeys_df : journeys_df[n].conversion_id = conv_id}

\* the conversions the loops have gone past
Passed ==
    LET upto == IF pc = "sleep_chunk" THEN i + max_journeys_per_request
                ELSE IF pc = "single" THEN i + k
                ELSE IF pc = "sleep_single" THEN i + k + 1
                ELSE i
    IN  {unique_conversions[n] : n \in 1..Min(upto, total_conversions)}

\* C3: every batch submitted holds at most max_journeys_per_request distinct
\* journeys and at most max_sessions_per_request touchpoint rows.
C3_BatchesWithinBothLimits ==
    \A b \in DOMAIN calls :
        /\ Cardinality(CallConversions(b)) <= max_journeys_per_request
        /\ Len(calls[b]) <= max_sessions_per_request

\* a finished run that fell back to single conversions for one chunk and
\* sent another chunk whole, filling both limits
C3_Witness ==
    /\ pc = "done"
    /\ \E a, b \in DOMAIN calls :
          /\ Cardinality(CallConversions(a)) = 1
          /\ Cardinality(CallConversions(b)) = max_journeys_per_request
          /\ max_journeys_per_request > 1
          /\ Len(calls[b]) = max_sessions_per_request

\* C4: every journey the loops have gone past is, whole, in exactly one
\* submitted batch, or was reported as skipped and has more touchpoints than
\* max_sessions_per_request; none is in two batches, none is both submitted
\* and skipped; when the run returns this covers every input journey.
C4_PartitionCoversInput ==
    /\ \A b \in DOMAIN calls :
          calls[b] = FilterSeq(journeys_df,
                               {r \in Range(journeys_df) :
                                   r.conversion_id \in CallConversions(b)})
    /\ \A a, b \in DOMAIN calls :
          a # b => CallConversions(a) \cap CallConversions(b) = {}
    /\ Submitted \cap skipped = {}
    /\ \A c \in skipped :
          Cardinality(RowsOfConversion(c)) > max_sessions_per_request
    /\ Passed \subseteq Submitted \cup skipped
    /\ pc = "done" => Range(unique_conversions) = Submitted \cup skipped

\* a finished run with a skipped journey and two batches
C4_Witness ==
    /\ pc = "done"
    /\ skipped # {}
    /\ Len(calls) >= 2

ZeroSumGroup(results) ==
    \E c \in Range(ConversionIds(results)) :
        /\ \A n \in DOMAIN results : results[n].missing = "none"
        /\ IhcSum(GroupOf(results, c)).n = 0

\* C6: a conversion whose returned weights sum to 0 is a validation failure
\* of that conversion only: no division by the sum, no exception; the run
\* goes on.
C6_ZeroSumIsNotFatal ==
    (response.kind = "value" /\ ZeroSumGroup(response.value))
        => (error = "none" /\ pc # "crashed")

\* C7: rows this run has persisted stay in the table through every later
\* step of the run.
C7_PersistedRowsRemain ==
    [][\A n \in DOMAIN table :
          table[n].run = "current" => table[n] \in Range(table')]_vars

\* C8: after a run that made service calls has returned, the table holds no
\* row of an earlier run.
C8_FullReplacePerRun ==
    (pc = "done" /\ calls # <<>>)
        => \A n \in DOMAIN table : table[n].run = "current"

FailedCall(resp) == resp.kind \in {"status_error", "transport_error"}

\* C9: batches are submitted once each and in order; a failed call (status
\* other than 200, transport error) persists nothing for its batch, raises
\* nothing and leaves the run at the rate-limit pause before the next
\* batch; a run that returns has submitted every batch.
C9_EachBatchOnceFailuresIsolated ==
    /\ \A a, b \in DOMAIN calls :
          a < b => \A x \in CallConversions(a) : \A y \in CallConversions(b) :
                        PositionOf(x) < PositionOf(y)
    /\ FailedCall(response) =>
          /\ error = "none"
          /\ pc \in {"sleep_chunk", "sleep_single"}
          /\ \A n \in DOMAIN table :
                table[n].run = "current"
                    => table[n].conv_id \notin CallConversions(Len(calls))
    /\ pc = "done" => Range(unique_conversions) = Submitted \cup skipped

\* a call that failed after an earlier call of the run persisted weights:
\* the run stands at the pause before the next batch
C9_Witness ==
    /\ pc = "sleep_chunk"
    /\ FailedCall(response)
    /\ Len(calls) >= 2
    /\ \E n \in DOMAIN table : table[n].run = "current"

MalformedEntry(results) ==
    \E n \in DOMAIN results : results[n].missing # "none"

\* C10: a call that fails (status, transport) or whose payload is malformed
\* (not JSON, no value, entries lacking a key) raises nothing out of
\* process_journeys and persists nothing for its batch.
C10_BadResponsesAreConfined ==
    (\/ response.kind \in {"status_error", "transport_error", "not_json", "no_value"}
     \/ MalformedEntry(response.value))
        => /\ error = "none"
           /\ pc # "crashed"

----------------------------------------------------------------------------
(* Claims about validate_ihc_results (SpecNorm) *)

\* |q - 1| <= 1e-4
WithinToleranceOfOne(q) ==
    /\ (q.n - q.d) * 10000 <= q.d
    /\ (q.d - q.n) * 10000 <= q.d

InputConversions == Range(ConversionIds(ihc_results))

InputSum(conv_id) == IhcSum(GroupOf(ihc_results, conv_id))
OutputSum(conv_id) == IhcSum(GroupOf(validated.rows, conv_id))

\* C5: when every conversion of the payload has a non-zero weight sum the
\* validator returns, and whenever it returns, the weights of every
\* conversion it hands on sum to 1 within 1e-4 (exactly 1 for a conversion
\* whose returned sum was outside the tolerance).
C5_NormalizedWeightsSumToOne ==
    npc = "validated" =>
        /\ (\A c \in InputConversions : InputSum(c).n # 0)
              => validated.raised = "none"
        /\ validated.raised = "none" =>
              \A c \in InputConversions :
                  /\ WithinToleranceOfOne(OutputSum(c))
                  /\ ~WithinToleranceOfOne(InputSum(c))
                        => OutputSum(c) = Q(1, 1)

\* the validator has rescaled weights 0.3 and 0.3 of one conversion to 0.5
\* and 0.5
C5_Witness ==
    /\ npc = "validated"
    /\ validated.raised = "none"
    /\ \E c \in InputConversions :
          /\ InputSum(c) = Q(3, 5)
          /\ Len(GroupOf(validated.rows, c)) = 2
          /\ \A n \in DOMAIN validated.rows :
                validated.rows[n].conversion_id = c
                    => validated.rows[n].ihc = Q(1, 2)

\* the row is the input row with its weight divided by ihc_sum
DividedBy(out, in, ihc_sum) ==
    /\ out.conversion_id = in.conversion_id
    /\ out.session_id = in.session_id
    /\ out.ihc = QDiv(in.ihc, ihc_sum)

\* C18: when the validator returns, a conversion whose returned weights sum
\* to 1 within 1e-4 has its rows handed on unchanged; every other
\* conversion has the same rows with each weight divided by that
\* conversion's own sum, whatever the other conversions of the payload are;
\* no row is added and none is removed.
C18_NormalizationIsPerConversion ==
    (npc = "validated" /\ validated.raised = "none") =>
        /\ Len(validated.rows) = Len(ihc_results)
        /\ Range(ConversionIds(validated.rows)) = InputConversions
        /\ \A c \in InputConversions :
              LET in == GroupOf(ihc_results, c)
                  out == GroupOf(validated.rows, c)
              IN  /\ Len(out) = Len(in)
                  /\ WithinToleranceOfOne(InputSum(c)) => out = in
                  /\ ~WithinToleranceOfOne(InputSum(c)) =>
                        \A n \in DOMAIN in : DividedBy(out[n], in[n], InputSum(c))

\* a payload of two conversions: one whose weights sum to 1.0001 and are
\* handed on as they came, one whose weight was rescaled
C18_Witness ==
    /\ npc = "validated"
    /\ validated.raised = "none"
    /\ \E c, d \in InputConversions :
          /\ InputSum(c) = Q(10001, 10000)
          /\ GroupOf(validated.rows, c) = GroupOf(ihc_results, c)
          /\ InputSum(d) = Q(3, 10)
          /\ OutputSum(d) = Q(1, 1)

----------------------------------------------------------------------------
(* The staged run *)

NoJourneysProduced == bpc = "done" /\ customer_journeys_df = <<>>

\* C11: when the build stage returns an empty journey frame, the run never
\* enters the submission stage (no service call is made and the table stays
\* as the run found it) and never enters the report stage.
C11_EmptyBuildHaltsRun ==
    NoJourneysProduced =>
        /\ entered = {"build_journeys"}
        /\ stage \in {"build_journeys", "returned"}
        /\ pc = "off"
        /\ calls = <<>>
        /\ table = PreviousRows

\* conversions exist, none has a qualifying touchpoint, the run has halted
C11_Witness ==
    /\ NoJourneysProduced
    /\ conversions_df # <<>>
    /\ session_sources_df # <<>>
    /\ stage = "returned"

RunEnded == stage \in {"returned", "raised"}

CurrentRows == {n \in DOMAIN table : table[n].run = "current"}

\* C12: a run that has ended entered the report stage if and only if the
\* submission stage left at least one weight row of this run in the table.
C12_ReportIffRowsWritten ==
    RunEnded => ("generate_report" \in entered <=> CurrentRows # {})

\* a gate stopped the run: it returned without entering the report stage
HaltedAtGate == stage = "returned" /\ "generate_report" \notin entered

\* C13: a run stopped by a gate (no journeys, or zero records) hands its
\* caller an outcome different from the one a run that completed all three
\* stages hands back (GenerateReport: value None, exit status 0).
C13_HaltReportsFailure ==
    HaltedAtGate => outcome # ReturnedNone

\* conversions of the store for which no touchpoint qualifies
WithoutTouchpoint ==
    {n \in DOMAIN conversions_df : QualifyingSessionIds(conversions_df[n]) = {}}

ConversionIdsIn(rows) == {rows[n].conversion_id : n \in DOMAIN rows}

\* C14: a conversion with no touchpoint of its identity at or before its time
\* has its conversion_id in no journey row, in no submitted batch and in no
\* table row, at any point of the run; every other conversion the builder
\* has processed has exactly its qualifying touchpoints as its journey, and
\* the builder has no failure exit.
C14_NoTouchpointNoJourney ==
    /\ \A n \in WithoutTouchpoint :
          /\ n \notin ConversionIdsIn(Concat(all_journeys))
          /\ n \notin ConversionIdsIn(customer_journeys_df)
          /\ n \notin ConversionIdsIn(journeys_df)
          /\ \A c \in DOMAIN calls : n \notin ConversionIdsIn(calls[c])
          /\ \A t \in DOMAIN table : table[t].conv_id # n
    /\ \A m \in (1..bidx) \ WithoutTouchpoint :
          /\ SessionIdsOf(JourneyRowsOf(m)) = QualifyingSessionIds(conversions_df[m])
          /\ Len(JourneyRowsOf(m)) = Cardinality(QualifyingSessionIds(conversions_df[m]))
    /\ bpc \in {"loop", "done"}

\* a completed run over a store holding a conversion without touchpoints,
\* ahead of one whose journey was submitted and whose weights were written
C14_Witness ==
    /\ stage = "returned"
    /\ "generate_report" \in entered
    /\ \E n \in WithoutTouchpoint : \E m \in DOMAIN conversions_df :
          /\ n < m
          /\ \E c \in DOMAIN calls : m \in ConversionIdsIn(calls[c])
          /\ \E t \in DOMAIN table : table[t].conv_id = m /\ table[t].run = "current"

----------------------------------------------------------------------------
(* The two-tier partition *)

\* the rows of the given journeys, in input order
RowsOfJourneys(ids) ==
    FilterSeq(journeys_df, {r \in Range(journeys_df) : r.conversion_id \in ids})

JourneySize(id) == Cardinality(RowsOfConversion(id))

RECURSIVE Singletons(_)
\* one batch per journey of the chunk, in order, without the journeys that
\* alone exceed the session limit
Singletons(ids) ==
    IF ids = <<>> THEN <<>>
    ELSE IF JourneySize(Head(ids)) > max_sessions_per_request
         THEN Singletons(Tail(ids))
         ELSE <<RowsOfJourneys({Head(ids)})>> \o Singletons(Tail(ids))

\* the batches of one primary chunk
ChunkBatches(ids) ==
    IF Len(RowsOfJourneys(Range(ids))) <= max_sessions_per_request
    THEN <<RowsOfJourneys(Range(ids))>>
    ELSE Singletons(ids)

RECURSIVE PartitionFrom(_)
\* primary chunks of at most max_journeys_per_request journeys, in input order
PartitionFrom(ids) ==
    IF ids = <<>> THEN <<>>
    ELSE LET n == Min(max_journeys_per_request, Len(ids))
         IN  ChunkBatches(SubSeq(ids, 1, n))
                 \o PartitionFrom(SubSeq(ids, n + 1, Len(ids)))

ReferencePartition == PartitionFrom(unique_conversions)

IsPrefix(a, b) == Len(a) <= Len(b) /\ SubSeq(b, 1, Len(a)) = a

\* C16: the journey_data of the calls made so far are, in order, the first
\* batches of the two-tier reference partition of the input, and when
\* process_journeys returns they are the whole partition.
C16_BatchesAreReferencePartition ==
    /\ IsPrefix(calls, ReferencePartition)
    /\ pc = "done" => calls = ReferencePartition

\* limits 2 and 3 over journeys of 2, 2 and 1 touchpoints: the run returned
\* after the batches {J1}, {J2}, {J3}
C16_Witness ==
    /\ pc = "done"
    /\ journeys_df = JourneysOfSizes(<<2, 2, 1>>)
    /\ max_journeys_per_request = 2
    /\ max_sessions_per_request = 3
    /\ calls = <<RowsOfJourneys({1}), RowsOfJourneys({2}), RowsOfJourneys({3})>>

----------------------------------------------------------------------------
(* Rate limit *)

\* C17: a service call is issued only when the delay has run since the
\* previous call of the run (or no call was made yet), whatever that call's
\* outcome was, and issuing it makes the delay due again.
C17_DelayBetweenCalls ==
    [][Len(calls') > Len(calls) => (slept /\ ~slept')]_vars

\* a second call has just been issued although the first one wrote nothing
C17_Witness ==
    /\ Len(calls) = 2
    /\ total_records = 0
    /\ pc \in {"sleep_chunk", "sleep_single"}
    /\ ~slept

----------------------------------------------------------------------------
(* partialFailureErrors *)

\* entries all carry their keys and every conversion's weights sum above 0
Usable(results) ==
    /\ results # <<>>
    /\ ~MalformedEntry(results)
    /\ ~ZeroSumGroup(results)

EntriesOf(results, conv_id) ==
    {n \in DOMAIN results : results[n].conversion_id = conv_id}

\* the table rows of the conversions of `value`
RowsFor(value) ==
    FilterSeq(table, {r \in Range(table) :
                         r.conv_id \in Range(ConversionIds(value))})

\* the table holds one row of this run for each entry of `value`, in order,
\* the weights of each conversion summing to 1 within the tolerance and
\* standing in the proportions the service gave them
PersistedNormalized(value) ==
    LET rows == RowsFor(value)
    IN  /\ Len(rows) = Len(value)
        /\ \A n \in DOMAIN rows :
              /\ rows[n].conv_id = value[n].conversion_id
              /\ rows[n].session_id = value[n].session_id
              /\ rows[n].run = "current"
        /\ \A n, m \in DOMAIN rows :
              value[n].conversion_id = value[m].conversion_id
                  => rows[n].ihc.n * rows[m].ihc.d * value[m].ihc.n * value[n].ihc.d
                       = rows[m].ihc.n * rows[n].ihc.d * value[n].ihc.n * value[m].ihc.d
        /\ \A c \in Range(ConversionIds(value)) :
              WithinToleranceOfOne(
                  IhcSum(FilterSeq(rows, {r \in Range(rows) : r.conv_id = c})))

\* C19: a 200 response carrying partialFailureErrors next to `value` has its
\* errors printed and is handled as any 200 response with that `value`:
\* nothing is raised, the run goes on to the pause before the next batch,
\* and the table holds the normalized weights of `value`.
C19_PartialFailureIsNotFailure ==
    /\ response.partial => console = "partial_failure_errors"
    /\ (response.kind = "value" /\ Usable(response.value)) =>
          /\ error = "none"
          /\ pc \in {"sleep_chunk", "sleep_single"}
          /\ PersistedNormalized(response.value)

\* a response with partialFailureErrors whose two weights of 3/10 were
\* rescaled and written
C19_Witness ==
    /\ response.partial
    /\ Len(response.value) >= 2
    /\ response.value[1].ihc = Q(3, 10)
    /\ RowsFor(response.value)[1].ihc = Q(1, 2)
    /\ pc = "sleep_chunk"

----------------------------------------------------------------------------
(* The journeys file *)

\* C15: the frame read back from the file save_to_csv wrote has the rows of
\* the saved frame, in the same order and with the same values.
C15_CsvRoundTrip ==
    cpc = "loaded" => loaded_df = saved_df

====
